---- MODULE Spec2Model ----
(***************************************************************************)
(* Model of etbay.py: an interactive session that searches eBay (HTML) or  *)
(* Etsy (JSON API) for listings under an optional price ceiling, asks for  *)
(* notes on every listing found and appends the annotated listings to a    *)
(* sqlite table inside a DatabaseManager scope.                            *)
(*                                                                         *)
(* Texts on which the program computes (answers typed by the user, price   *)
(* texts, titles) are sequences of one-character strings, so that strip,   *)
(* lower, capitalize, replace and float are computed as Python computes    *)
(* them.  Numbers are held in hundredths (float("45.00") is 4500).         *)
(* An optional value is a set with at most one element: {} is None.        *)
(***************************************************************************)
EXTENDS Integers, Sequences, FiniteSets, TLC

\* ---------------------------------------------------------------- bounds
\* listing blocks / result objects in one response
MaxBlocks == 2

\* ------------------------------------------------------ optional values
None == {}
Some(x) == {x}
Val(o) == CHOOSE x \in o : TRUE

\* ------------------------------------------------------------------ text
Digits == {"0", "1", "2", "3", "4", "5", "6", "7", "8", "9"}

DigitVal(c) ==
  CASE c = "0" -> 0 [] c = "1" -> 1 [] c = "2" -> 2 [] c = "3" -> 3
    [] c = "4" -> 4 [] c = "5" -> 5 [] c = "6" -> 6 [] c = "7" -> 7
    [] c = "8" -> 8 [] c = "9" -> 9

\* str.lower on one character
LowerCh(c) ==
  CASE c = "A" -> "a" [] c = "B" -> "b" [] c = "E" -> "e" [] c = "S" -> "s"
    [] c = "T" -> "t" [] c = "Y" -> "y" [] c = "Z" -> "z" [] OTHER -> c

\* str.upper on one character
UpperCh(c) ==
  CASE c = "a" -> "A" [] c = "b" -> "B" [] c = "e" -> "E" [] c = "s" -> "S"
    [] c = "t" -> "T" [] c = "y" -> "Y" [] c = "z" -> "Z" [] OTHER -> c

\* str.lower
Lower(s) == [i \in 1..Len(s) |-> LowerCh(s[i])]

\* str.capitalize: first character upper-cased, the rest lower-cased
Capitalize(s) == [i \in 1..Len(s) |-> IF i = 1 THEN UpperCh(s[i]) ELSE LowerCh(s[i])]

\* str.strip: leading and trailing whitespace removed
Strip(s) ==
  LET nonsp == {i \in 1..Len(s) : s[i] # " "}
  IN  IF nonsp = {} THEN <<>>
      ELSE LET lo == CHOOSE i \in nonsp : \A j \in nonsp : i <= j
               hi == CHOOSE i \in nonsp : \A j \in nonsp : j <= i
           IN  SubSeq(s, lo, hi)

\* str.replace(c, ''): every occurrence of the character removed
Remove(s, c) == SelectSeq(s, LAMBDA x : x # c)

RECURSIVE Num(_)
\* value of a sequence of decimal digits
Num(ds) == IF ds = <<>> THEN 0
           ELSE 10 * Num(SubSeq(ds, 1, Len(ds) - 1)) + DigitVal(ds[Len(ds)])

\* float(s) for the unsigned decimal texts of the model: surrounding
\* whitespace is ignored, then digits with at most one '.', at least one
\* digit.  The result is Some(value in hundredths); None stands for
\* ValueError.  Digits after the second fractional one are dropped.
Float(s) ==
  LET t    == Strip(s)
      dots == {i \in 1..Len(t) : t[i] = "."}
      wf   == /\ Len(t) > 0
              /\ \A i \in 1..Len(t) : t[i] \in Digits \cup {"."}
              /\ Cardinality(dots) <= 1
              /\ \E i \in 1..Len(t) : t[i] \in Digits
      d    == IF dots = {} THEN Len(t) + 1 ELSE CHOOSE i \in dots : TRUE
      ip   == SubSeq(t, 1, d - 1)
      fp   == SubSeq(t, d + 1, Len(t))
      f1   == IF Len(fp) >= 1 THEN DigitVal(fp[1]) ELSE 0
      f2   == IF Len(fp) >= 2 THEN DigitVal(fp[2]) ELSE 0
  IN  IF wf THEN Some(100 * Num(ip) + 10 * f1 + f2) ELSE None

\* is_float
is_float(value) == Float(value) # None

\* 'N/A'
NA == <<"N", "/", "A">>

\* --------------------------------------------------------------- logging
Entry(level, msg) == [level |-> level, msg |-> msg]

\* ------------------------------------------------------------ fetch_url
\* @retry(stop_max_attempt_number=3, ...)
stop_max_attempt_number == 3

\* outcome of one attempt: requests.get and raise_for_status
Outcomes == {"ok", "ConnectionError", "HTTPError"}

ShouldStopOneMore(attempt_number) == attempt_number > stop_max_attempt_number

\* the retry decorator stops after the attempt with this number failed
ShouldStop(attempt_number) == attempt_number >= stop_max_attempt_number

IsRequestExceptionStatusOnly(e) == e = "HTTPError"

\* except requests.RequestException: the exceptions of an attempt it catches
IsRequestException(e) == e \in {"ConnectionError", "HTTPError"}

\* ------------------------------------------------------ find_ebay_items
\* One <div class="s-item__info"> block of the page:
\*   title    : None or the text of h3.s-item__title
\*   price    : None or the text of span.s-item__price
\*   link     : "none" (no a.s-item__link), "nohref" (node without href)
\*              or "href"; href is the attribute's value
\*   subtitle : None or the text of div.s-item__subtitle

EbayKeepsStrict(price, max_price) ==
  max_price = None \/ (price # None /\ Val(price) < Val(max_price))

\* price is not None and price <= max_price, under "max_price is None or"
EbayKeeps(price, max_price) ==
  max_price = None \/ (price # None /\ Val(price) <= Val(max_price))

\* The body of the try for one block: the exception it raises ("none" when
\* it ends normally) and the records it appends.
EbayItem(item, max_price) ==
  LET price_text == item.price
      stripped   == IF price_text = None THEN <<>>
                    ELSE Remove(Remove(Val(price_text), "$"), ",")
      price      == IF price_text = None THEN None ELSE Float(stripped)
      rec        == [title       |-> Strip(Val(item.title)),
                     price       |-> IF price_text # None THEN Val(price_text) ELSE NA,
                     link        |-> item.href,
                     description |-> IF item.subtitle # None
                                     THEN Strip(Val(item.subtitle)) ELSE NA]
  IN  IF item.title = None THEN [exc |-> "AttributeError", recs |-> <<>>]
      ELSE IF price_text # None /\ Float(stripped) = None
             THEN [exc |-> "ValueError", recs |-> <<>>]
      ELSE IF item.link = "none" THEN [exc |-> "TypeError", recs |-> <<>>]
      ELSE IF item.link = "nohref" THEN [exc |-> "KeyError", recs |-> <<>>]
      ELSE IF EbayKeeps(price, max_price) THEN [exc |-> "none", recs |-> <<rec>>]
      ELSE [exc |-> "none", recs |-> <<>>]

\* except AttributeError: the only exception the loop body handles
EbayHandles(e) == e = "AttributeError"

RECURSIVE EbayLoop(_, _, _, _, _)
\* the for loop over the blocks, from block i on
EbayLoop(blocks, i, acc, lg, max_price) ==
  IF i > Len(blocks)
    THEN [exc |-> "none", items |-> acc,
          log |-> Append(lg, Entry("INFO", "Found items on eBay"))]
  ELSE LET r == EbayItem(blocks[i], max_price)
       IN  IF r.exc = "none"
             THEN EbayLoop(blocks, i + 1, acc \o r.recs, lg, max_price)
           ELSE IF EbayHandles(r.exc)
             THEN EbayLoop(blocks, i + 1, acc,
                           Append(lg, Entry("WARNING", "Error parsing eBay item data")),
                           max_price)
           ELSE [exc |-> r.exc, items |-> <<>>, log |-> lg]

\* find_ebay_items after fetch_url returned the page
EbayParse(blocks, max_price) == EbayLoop(blocks, 1, <<>>, <<>>, max_price)

\* ------------------------------------------------------ find_etsy_items
NoKeyUnsetOnly(api_key) == api_key = None

\* if not api_key
NoKey(api_key) == api_key = None \/ Val(api_key) = <<>>

\* One result object: every field is None (key missing) or Some(value).
\* A price value is [type |-> "str" | "null", text |-> characters].
StrV(t) == [type |-> "str", text |-> t]
NullV == [type |-> "null", text |-> <<>>]

\* dict.get(key, default)
Get(field, default) == IF field = None THEN default ELSE Val(field)

\* f'${price}'
Dollar(price) == <<"$">> \o (IF price.type = "null" THEN <<"N", "o", "n", "e">>
                              ELSE price.text)

\* The body of the try for one result: the exception raised by
\* "max_price is None or (price != 'N/A' and float(price) <= max_price)"
\* and the records appended.
EtsyItem(item, max_price) ==
  LET title       == Get(item.title, NA)
      price       == Get(item.price, StrV(NA))
      link        == Get(item.url, "N/A")
      description == Get(item.description, NA)
      rec         == [title |-> title, price |-> Dollar(price),
                      link |-> link, description |-> description]
  IN  IF max_price = None THEN [exc |-> "none", recs |-> <<rec>>]
      ELSE IF price = StrV(NA) THEN [exc |-> "none", recs |-> <<>>]
      ELSE IF price.type = "null" THEN [exc |-> "TypeError", recs |-> <<>>]
      ELSE IF Float(price.text) = None THEN [exc |-> "ValueError", recs |-> <<>>]
      ELSE IF Val(Float(price.text)) <= Val(max_price)
             THEN [exc |-> "none", recs |-> <<rec>>]
      ELSE [exc |-> "none", recs |-> <<>>]

EtsyHandlesTypeOnly(e) == e = "TypeError"

\* except (TypeError, ValueError)
EtsyHandles(e) == e \in {"TypeError", "ValueError"}

RECURSIVE EtsyLoop(_, _, _, _, _)
\* the for loop over data.get('results', []), from result i on
EtsyLoop(results, i, acc, lg, max_price) ==
  IF i > Len(results)
    THEN [exc |-> "none", items |-> acc,
          log |-> Append(lg, Entry("INFO", "Found items on Etsy"))]
  ELSE LET r == EtsyItem(results[i], max_price)
       IN  IF r.exc = "none"
             THEN EtsyLoop(results, i + 1, acc \o r.recs, lg, max_price)
           ELSE IF EtsyHandles(r.exc)
             THEN EtsyLoop(results, i + 1, acc,
                           Append(lg, Entry("WARNING", "Error parsing Etsy item data")),
                           max_price)
           ELSE [exc |-> r.exc, items |-> <<>>, log |-> lg]

\* find_etsy_items after fetch_url returned the payload; data.results is
\* None when the payload has no 'results' key
EtsyParse(data, max_price) ==
  EtsyLoop(Get(data.results, <<>>), 1, <<>>, <<>>, max_price)

\* ------------------------------------------------------ DatabaseManager
InsertFirst(table, platform_, title, price, link, description, notes) ==
  <<[platform |-> platform_, title |-> title, price |-> price,
     link |-> link, description |-> description, notes |-> notes]>> \o table

\* save_to_database: INSERT INTO listings ... appends one row
Insert(table, platform_, title, price, link, description, notes) ==
  Append(table, [platform |-> platform_, title |-> title, price |-> price,
                 link |-> link, description |-> description, notes |-> notes])

ExitCommittedOnSuccess(held, durable, exc_val) ==
  IF exc_val # "none" THEN durable ELSE held

\* __exit__: what is durable after self.conn.commit(), given the rows
\* the connection holds, the rows durable before, and exc_val
ExitCommitted(held, durable, exc_val) == held

\* __exit__: if exc_val: logging.error(...)
ExitLog(lg, exc_val) ==
  IF exc_val # "none" THEN Append(lg, Entry("ERROR", "Database operation failed"))
  ELSE lg

\* ----------------------------------------------------------------- main
ValidPlatformAny(x) == Len(x) > 0

\* lambda x: x.lower() in ['ebay', 'etsy']
ValidPlatform(x) == Lower(x) \in {<<"e", "b", "a", "y">>, <<"e", "t", "s", "y">>}
\* lambda x: len(x) > 0
ValidQuery(x) == Len(x) > 0
\* lambda x: is_float(x) or x == ''
ValidCeiling(x) == is_float(x) \/ x = <<>>
\* float(max_price_input) if max_price_input else None
CeilingOf(x) == IF x # <<>> THEN Float(x) ELSE None
\* platform.lower() == 'ebay'
IsEbay(x) == Lower(x) = <<"e", "b", "a", "y">>

\* ------------------------------------------------- inputs of the model
SeqsUpTo(S, n) == UNION {[1..k -> S] : k \in 0..n}

PlatformAnswers == {<<"e", "B", "a", "y">>, <<" ", "E", "T", "S", "Y">>, <<"a", "m", "z">>}
QueryAnswers == {<<" ">>, <<"m", "u", "g">>}
CeilingAnswers == {<<>>, <<" ", "4", "5", ".", "0">>, <<"a", "b">>}
NoteAnswers == {<<>>, <<" ", "o", "k">>}
\* ETSY_API_KEY: unset, empty, set
Keys == {None, Some(<<>>), Some(<<"k">>)}

Block(t, p, l, h, s) ==
  [title |-> t, price |-> p, link |-> l, href |-> h, subtitle |-> s]
\* well formed, $45.00, no subtitle
BLamp == Block(Some(<<" ", "L">>), Some(<<"$", "4", "5", ".", "0", "0">>), "href", "http://x/lamp", None)
\* well formed, $1,200, with a subtitle
BHigh == Block(Some(<<"H">>), Some(<<"$", "1", ",", "2", "0", "0">>), "href", "http://x/high", Some(<<"n", " ">>))
\* well formed, no price node
BNoPrice == Block(Some(<<"P">>), None, "href", "http://x/noprice", None)
\* malformed: no title node
BNoTitle == Block(None, Some(<<"$", "1">>), "href", "http://x/notitle", None)
\* malformed: no link node
BNoLink == Block(Some(<<"K">>), Some(<<"$", "1">>), "none", "", None)
\* malformed: link node without href
BNoHref == Block(Some(<<"F">>), Some(<<"$", "1">>), "nohref", "", None)
\* price range "$1 to $2"
BRange == Block(Some(<<"R">>), Some(<<"$", "1", " ", "t", "o", " ", "$", "2">>), "href", "http://x/range", None)
EbayBlocks == {BLamp, BHigh, BNoPrice, BNoTitle, BNoLink, BNoHref, BRange}

Result(t, p, u) ==
  [title |-> t, price |-> p, url |-> Some(u), description |-> None]
\* price "12"
RMug == Result(Some(<<"M">>), Some(StrV(<<"1", "2">>)), "http://y/mug")
\* price "90.5", no title
RDear == Result(None, Some(StrV(<<"9", "0", ".", "5">>)), "http://y/dear")
\* no price key
RNoPrice == Result(Some(<<"Q">>), None, "http://y/noprice")
\* price "abc"
RText == Result(Some(<<"X">>), Some(StrV(<<"a", "b", "c">>)), "http://y/text")
\* price null
RNull == Result(Some(<<"U">>), Some(NullV), "http://y/null")
EtsyResults == {RMug, RDear, RNoPrice, RText, RNull}

\* a printed line: its fixed text and the values formatted into it
Line(text, args) == [text |-> text, args |-> args]
Invalid == Line("Invalid input, please try again.", <<>>)
NoItems == Line("No items found.", <<>>)
\* f"Title: {item['title']}, Price: {item['price']}, Link: {item['link']}"
ItemLine(item) == Line("Title: {}, Price: {}, Link: {}",
                       <<item.title, item.price, item.link>>)

\* ---------------------------------------------------------------- state
VARIABLES
  pc,            \* where main is: "platform", "query", "ceiling", "fetch", "notes", "done"
  platform,      \* main: platform
  search_query,  \* main: search_query
  max_price_input, \* main: max_price_input
  max_price,     \* main: max_price (None or Some(number))
  user_input,    \* get_user_input: user_input, the last answer read
  called,        \* the extractor main called: "none", "ebay", "etsy"
  api_key,       \* find_etsy_items: api_key
  fetch_calls,   \* calls of fetch_url
  attempts,      \* outcomes of the attempts of the fetch_url call, in order
  fetch_exc,     \* the exception fetch_url raised, "none" if none
  fetched,       \* fetch_url returned a response
  page,          \* the blocks / results of the response
  has_results,   \* the JSON payload has the 'results' key
  items,         \* main: items
  idx,           \* main: position of the for loop over items (next item)
  answers,       \* the notes answers typed so far, as typed
  rows,          \* listings as the open connection sees it
  committed,     \* listings as committed to the file
  old,           \* listings when the session started
  connOpen,      \* the connection is open
  exc,           \* the exception that left main, "none" if none
  log,           \* logging records
  out            \* the last line printed

vars == <<pc, platform, search_query, max_price_input, max_price, user_input, called, api_key,
          fetch_calls, attempts, fetch_exc, fetched, page, has_results, items,
          idx, answers, rows, committed, old, connOpen, exc, log, out>>

OldRow == [platform |-> <<"E", "t", "s", "y">>, title |-> <<"O">>, price |-> <<"$", "1">>,
           link |-> "http://y/0", description |-> NA, notes |-> <<>>]
OldTables == {<<>>, <<OldRow>>}

\* after "with DatabaseManager() as db: db.setup_database()"
Init ==
  /\ pc = "platform"
  /\ platform = <<>>
  /\ search_query = <<>>
  /\ max_price_input = <<>>
  /\ max_price = None
  /\ user_input = <<>>
  /\ called = "none"
  /\ api_key = None
  /\ fetch_calls = 0
  /\ attempts = <<>>
  /\ fetch_exc = "none"
  /\ fetched = FALSE
  /\ page = <<>>
  /\ has_results = FALSE
  /\ items = <<>>
  /\ idx = 1
  /\ answers = <<>>
  /\ old \in OldTables
  /\ rows = old
  /\ committed = old
  /\ connOpen = TRUE
  /\ exc = "none"
  /\ log = <<Entry("INFO", "Setting up the database.")>>
  /\ out = Line("", <<>>)

\* leaving the with block: __exit__(exc_val), then main returns or raises
Leave(e, held, lg) ==
  /\ pc' = "done"
  /\ exc' = e
  /\ committed' = ExitCommitted(held, committed, e)
  /\ connOpen' = FALSE
  /\ log' = ExitLog(lg, e)

\* main once the extractor returned r (or raised r.exc)
Returned(r) ==
  IF r.exc # "none"
    THEN /\ items' = <<>>
         /\ out' = out
         /\ Leave(r.exc, rows, log \o r.log)
  ELSE /\ items' = r.items
       /\ IF r.items = <<>>
            THEN /\ out' = NoItems
                 /\ Leave("none", rows, log \o r.log)
          ELSE /\ out' = ItemLine(r.items[1])
               /\ pc' = "notes"
               /\ log' = log \o r.log
               /\ UNCHANGED <<exc, committed, connOpen>>

\* the platform prompt is answered
AnswerPlatform(a) ==
  /\ pc = "platform"
  /\ user_input' = Strip(a)
  /\ IF ~ValidPlatform(user_input')
       THEN /\ out' = Invalid
            /\ UNCHANGED <<pc, platform>>
     ELSE /\ platform' = user_input'
          /\ pc' = "query"
          /\ UNCHANGED out
  /\ UNCHANGED <<search_query, max_price_input, max_price, called, api_key, fetch_calls,
                 attempts, fetch_exc, fetched, page, has_results, items, idx, answers,
                 rows, committed, old, connOpen, exc, log>>

\* the query prompt is answered
AnswerQuery(a) ==
  /\ pc = "query"
  /\ user_input' = Strip(a)
  /\ IF ~ValidQuery(user_input')
       THEN /\ out' = Invalid
            /\ UNCHANGED <<pc, search_query>>
     ELSE /\ search_query' = user_input'
          /\ pc' = "ceiling"
          /\ UNCHANGED out
  /\ UNCHANGED <<platform, max_price_input, max_price, called, api_key, fetch_calls,
                 attempts, fetch_exc, fetched, page, has_results, items, idx, answers,
                 rows, committed, old, connOpen, exc, log>>

\* the ceiling prompt is answered; on a valid answer main calls the
\* extractor, which runs up to its call of fetch_url
AnswerCeiling(a, key) ==
  /\ pc = "ceiling"
  /\ user_input' = Strip(a)
  /\ IF ~ValidCeiling(user_input')
       THEN /\ out' = Invalid
            /\ UNCHANGED <<pc, max_price_input, max_price, called, api_key,
                           fetch_calls, items, committed, connOpen, exc, log>>
     ELSE /\ max_price_input' = user_input'
          /\ max_price' = CeilingOf(user_input')
          /\ IF IsEbay(platform)
               THEN /\ called' = "ebay"
                    /\ key = None
                    /\ fetch_calls' = fetch_calls + 1
                    /\ pc' = "fetch"
                    /\ UNCHANGED <<api_key, items, committed, connOpen, exc, log, out>>
             ELSE /\ called' = "etsy"
                  /\ api_key' = key
                  /\ IF NoKey(key)
                       THEN /\ UNCHANGED fetch_calls
                            /\ Returned([exc |-> "none", items |-> <<>>,
                                         log |-> <<Entry("ERROR", "Etsy API key not found")>>])
                     ELSE /\ fetch_calls' = fetch_calls + 1
                          /\ pc' = "fetch"
                          /\ UNCHANGED <<items, committed, connOpen, exc, log, out>>
  /\ UNCHANGED <<platform, search_query, attempts, fetch_exc, fetched, page,
                 has_results, idx, answers, rows, old>>

\* one attempt of fetch_url fails with e (transport error or error status)
FetchFail(e) ==
  /\ pc = "fetch"
  /\ e \in Outcomes \ {"ok"}
  /\ attempts' = Append(attempts, e)
  /\ IF ShouldStop(Len(attempts) + 1)
       THEN /\ fetch_exc' = e
            /\ IF IsRequestException(e)
                 THEN Returned([exc |-> "none", items |-> <<>>,
                                log |-> <<Entry("ERROR", IF called = "ebay"
                                                         THEN "Failed to retrieve eBay items"
                                                         ELSE "Failed to retrieve Etsy items")>>])
               ELSE Returned([exc |-> e, items |-> <<>>, log |-> <<>>])
     ELSE UNCHANGED <<fetch_exc, pc, items, committed, connOpen, exc, log, out>>
  /\ UNCHANGED <<platform, search_query, max_price_input, max_price, user_input, called, api_key,
                 fetch_calls, fetched, page, has_results, idx, answers, rows, old>>

\* the responses a search of the platform can get
Pages(fn) == IF fn = "ebay" THEN SeqsUpTo(EbayBlocks, MaxBlocks)
             ELSE SeqsUpTo(EtsyResults, MaxBlocks)

\* one attempt of fetch_url succeeds: the response is returned and the
\* extractor parses it
FetchOk ==
  /\ pc = "fetch"
  /\ \E blocks \in Pages(called), results_key \in BOOLEAN :
       /\ attempts' = Append(attempts, "ok")
       /\ fetched' = TRUE
       /\ page' = blocks
       /\ has_results' = results_key
       /\ IF called = "ebay"
            THEN /\ results_key
                 /\ Returned(EbayParse(blocks, max_price))
          ELSE /\ results_key \/ blocks = <<>>
               /\ Returned(EtsyParse([results |-> IF results_key THEN Some(blocks)
                                                  ELSE None],
                                     max_price))
  /\ UNCHANGED <<platform, search_query, max_price_input, max_price, user_input, called,
                 api_key, fetch_calls, fetch_exc, idx, answers, rows, old>>

\* the notes prompt of items[idx] is answered and the row is saved; the
\* INSERT succeeds (ok) or raises sqlite3.Error
AnswerNotes(a, ok) ==
  /\ pc = "notes"
  /\ user_input' = Strip(a)
  /\ LET item        == items[idx]
         description == item.description
         notes       == Strip(user_input')
         lg          == Append(log, Entry("INFO", "Saving item to the database."))
         table       == Insert(rows, Capitalize(platform), item.title, item.price,
                               item.link, description, notes)
     IN  /\ answers' = Append(answers, a)
         /\ IF ~ok
              THEN /\ UNCHANGED <<rows, idx, out>>
                   /\ Leave("sqlite3.Error", rows, lg)
            ELSE /\ rows' = table
                 /\ idx' = idx + 1
                 /\ IF idx = Len(items)
                      THEN /\ UNCHANGED out
                           /\ Leave("none", table, lg)
                    ELSE /\ out' = ItemLine(items[idx + 1])
                         /\ log' = lg
                         /\ UNCHANGED <<pc, exc, committed, connOpen>>
  /\ UNCHANGED <<platform, search_query, max_price_input, max_price, called, api_key,
                 fetch_calls, attempts, fetch_exc, fetched, page, has_results,
                 items, old>>

\* input() raises EOFError at a prompt
InputEOF ==
  /\ pc \in {"platform", "query", "ceiling", "notes"}
  /\ Leave("EOFError", rows, log)
  /\ UNCHANGED <<platform, search_query, max_price_input, max_price, user_input, called, api_key,
                 fetch_calls, attempts, fetch_exc, fetched, page, has_results,
                 items, idx, answers, rows, old, out>>

\* one attempt of fetch_url, whatever its outcome
FetchAttempt ==
  \/ \E e \in Outcomes : FetchFail(e)
  \/ FetchOk

Next ==
  \/ \E a \in PlatformAnswers : AnswerPlatform(a)
  \/ \E a \in QueryAnswers : AnswerQuery(a)
  \/ \E a \in CeilingAnswers, key \in Keys : AnswerCeiling(a, key)
  \/ \E e \in Outcomes : FetchFail(e)
  \/ FetchOk
  \/ \E a \in NoteAnswers, ok \in BOOLEAN : AnswerNotes(a, ok)
  \/ InputEOF

Spec == Init /\ [][Next]_vars

\* every attempt of fetch_url finishes
FairSpec == Spec /\ WF_vars(FetchAttempt)

\* ============================================================ properties
\* What the listings of the model are, stated apart from the extractors.
EbayWellFormed == {BLamp, BHigh, BNoPrice}
EbayMalformed == {BNoTitle, BNoLink, BNoHref}
\* the numeric price of a listing, in hundredths; None when it has none
NumericPrice(b) ==
  CASE b = BLamp -> Some(4500) [] b = BHigh -> Some(120000)
    [] b = RMug -> Some(1200) [] b = RDear -> Some(9050)
    [] OTHER -> None
\* results whose price is present, is not 'N/A' and is not a number
EtsyNonNumeric == {RText, RNull}
\* listings an extractor parses when it returns
Parsed(b) == b \in EbayWellFormed \cup EtsyResults

LinkOf(b) == IF b \in EbayBlocks THEN b.href ELSE Val(b.url)
PageLinks(bs) == [i \in 1..Len(bs) |-> LinkOf(bs[i])]
ItemLinks(its) == [i \in 1..Len(its) |-> its[i].link]
Warnings == Len(SelectSeq(log, LAMBDA en : en.level = "WARNING"))
Logged(level, msg) == \E i \in 1..Len(log) : log[i] = Entry(level, msg)

ParseErrors == {"AttributeError", "ValueError", "TypeError", "KeyError"}
\* the extractor got a response and returned its items to main
ExtractorReturned == fetched /\ exc \notin ParseErrors
\* the extractor got a response and an exception left it
ExtractorRaised == fetched /\ exc \in ParseErrors

\* C1 as claimed: each parsed listing is returned iff there is no ceiling,
\* or it has no numeric price, or its numeric price is <= the ceiling.
C1_AsClaimed ==
  ExtractorReturned =>
    ItemLinks(items) =
      PageLinks(SelectSeq(page, LAMBDA b :
        Parsed(b) /\ (\/ max_price = None
                      \/ NumericPrice(b) = None
                      \/ Val(NumericPrice(b)) <= Val(max_price))))

\* C1 amended: each parsed listing is returned iff there is no ceiling, or
\* it has a numeric price and that price is <= the ceiling; a listing
\* without a numeric price is not returned when a ceiling is supplied.
C1_CeilingRule ==
  ExtractorReturned =>
    ItemLinks(items) =
      PageLinks(SelectSeq(page, LAMBDA b :
        Parsed(b) /\ (\/ max_price = None
                      \/ /\ NumericPrice(b) # None
                         /\ Val(NumericPrice(b)) <= Val(max_price))))

\* a ceiling was supplied and the page held a listing at the ceiling, one
\* above it and one without price, on either platform
C1_Witness ==
  /\ ExtractorReturned
  /\ max_price = Some(4500)
  /\ \/ page = <<BLamp, BNoPrice>> /\ ItemLinks(items) = <<"http://x/lamp">>
     \/ page = <<RDear, RMug>> /\ ItemLinks(items) = <<"http://y/mug">>

\* C2 as claimed: with no ceiling, a page of well-formed blocks and blocks
\* without title or link makes find_ebay_items return exactly the
\* well-formed records in document order.
C2_AsClaimed ==
  (/\ called = "ebay"
   /\ fetched
   /\ max_price = None
   /\ \A i \in 1..Len(page) : page[i] \in EbayWellFormed \cup EbayMalformed)
  => /\ ExtractorReturned
     /\ ItemLinks(items) =
          PageLinks(SelectSeq(page, LAMBDA b : b \in EbayWellFormed))

\* C3 as claimed: a result with a non-numeric price is never returned by
\* find_etsy_items, with or without a ceiling, and the function returns.
C3_AsClaimed ==
  (called = "etsy" /\ fetched)
  => /\ ExtractorReturned
     /\ \A i \in 1..Len(items) :
          items[i].link \notin {LinkOf(b) : b \in EtsyNonNumeric}

\* C3 amended: when a ceiling is supplied, find_etsy_items returns, never
\* returns a result with a non-numeric price, logs one warning for each,
\* and returns its siblings by the ceiling rule; with no ceiling such a
\* result is returned like any other.
C3_NonNumericSkipped ==
  (called = "etsy" /\ fetched)
  => /\ ExtractorReturned
     /\ max_price # None =>
          /\ \A i \in 1..Len(items) :
               items[i].link \notin {LinkOf(b) : b \in EtsyNonNumeric}
          /\ Warnings = Len(SelectSeq(page, LAMBDA b : b \in EtsyNonNumeric))
          /\ ItemLinks(items) =
               PageLinks(SelectSeq(page, LAMBDA b :
                 /\ NumericPrice(b) # None
                 /\ Val(NumericPrice(b)) <= Val(max_price)))
     /\ max_price = None => ItemLinks(items) = PageLinks(page)

\* under a ceiling a non-numeric result was skipped and its sibling returned
C3_Witness ==
  /\ called = "etsy"
  /\ max_price # None
  /\ page = <<RText, RMug>>
  /\ ItemLinks(items) = <<"http://y/mug">>
  /\ Warnings = 1

\* C9 as claimed: a block whose price text is not a number is skipped on its
\* own; find_ebay_items returns the records of the other blocks.
C9_AsClaimed ==
  (/\ called = "ebay"
   /\ fetched
   /\ max_price = None
   /\ \A i \in 1..Len(page) : page[i] \in EbayWellFormed \cup {BRange})
  => /\ ExtractorReturned
     /\ ItemLinks(items) =
          PageLinks(SelectSeq(page, LAMBDA b : b \in EbayWellFormed))

IsPrefix(a, b) == Len(a) <= Len(b) /\ SubSeq(b, 1, Len(a)) = a
Failures == Outcomes \ {"ok"}

\* C4: one call of fetch_url makes at most 3 attempts, each made only after
\* all earlier ones failed; it returns on the first success and attempts
\* nothing after it; it raises only after the third failure, and then the
\* cause of the third; and every call ends in one of the two ways.
C4_BoundedRetry ==
  /\ [](/\ Len(attempts) <= 3
        /\ \A i \in 1..(Len(attempts) - 1) : attempts[i] \in Failures
        /\ fetched <=> (attempts # <<>> /\ attempts[Len(attempts)] = "ok")
        /\ fetch_exc # "none" <=> (Len(attempts) = 3 /\ attempts[3] \in Failures)
        /\ fetch_exc # "none" => fetch_exc = attempts[3]
        /\ pc = "fetch" <=> (fetch_calls = 1 /\ ~fetched /\ fetch_exc = "none"))
  /\ [][(fetched \/ fetch_exc # "none") => attempts' = attempts]_vars
  /\ ((pc = "fetch") ~> (fetched \/ fetch_exc # "none"))

\* the call failed after three attempts whose causes differ
C4_Witness ==
  /\ attempts = <<"ConnectionError", "ConnectionError", "HTTPError">>
  /\ fetch_exc = "HTTPError"

\* C5: with the Etsy credential unset or empty, find_etsy_items returns no
\* items, fetch_url is never called and no attempt is made.
C5_NoCredential ==
  (called = "etsy" /\ api_key \in {None, Some(<<>>)})
  => /\ fetch_calls = 0
     /\ attempts = <<>>
     /\ items = <<>>
     /\ ~fetched
     /\ Logged("ERROR", "Etsy API key not found")
     /\ pc = "done"
     /\ exc = "none"

\* find_etsy_items was called with an empty credential
C5_Witness ==
  /\ called = "etsy"
  /\ api_key = Some(<<>>)
  /\ max_price # None
  /\ out = NoItems

\* C6: when all attempts of the search fail, the extractor returns no
\* items, main prints "No items found.", asks for no notes, saves no row
\* and returns normally through the scope exit.
C6_FetchFailure ==
  fetch_exc # "none"
  => /\ pc = "done"
     /\ exc = "none"
     /\ items = <<>>
     /\ out = NoItems
     /\ answers = <<>>
     /\ rows = old
     /\ committed = old
     /\ ~connOpen
     /\ Logged("ERROR", IF called = "ebay" THEN "Failed to retrieve eBay items"
                        ELSE "Failed to retrieve Etsy items")
     /\ ~Logged("ERROR", "Database operation failed")

\* an eBay search whose last attempt failed on a transport error
C6_Witness ==
  /\ called = "ebay"
  /\ fetch_exc = "ConnectionError"
  /\ pc = "done"

\* C7: when the scope is left, cleanly or by an exception, everything the
\* session wrote is committed and the connection is closed: the rows of
\* the k saves that succeeded are durable, and an exception is logged.
C7_CommitOnExit ==
  pc = "done"
  => /\ ~connOpen
     /\ committed = rows
     /\ Len(committed) = Len(old) + (idx - 1)
     /\ IsPrefix(old, committed)
     /\ exc # "none" <=> log[Len(log)] = Entry("ERROR", "Database operation failed")

\* the second save failed after the first had succeeded
C7_Witness ==
  /\ pc = "done"
  /\ exc = "sqlite3.Error"
  /\ idx = 2
  /\ Len(answers) = 2
  /\ Len(committed) = Len(old) + 1

\* the capitalized platform name of the search
PlatformName == IF called = "ebay" THEN <<"E", "b", "a", "y">>
                ELSE <<"E", "t", "s", "y">>
\* the row main saves for items[i]
RowOf(i) == [platform |-> PlatformName, title |-> items[i].title,
             price |-> items[i].price, link |-> items[i].link,
             description |-> items[i].description, notes |-> Strip(answers[i])]

\* C8: the table is the table of the session's start followed by one row
\* per item annotated so far, in the order of items, each with the
\* capitalized platform name, the item's fields and the notes entered; a
\* step only appends; a session that ran to the end added len(items) rows.
C8_AppendOnly ==
  /\ [](/\ rows = old \o [i \in 1..(idx - 1) |-> RowOf(i)]
        /\ idx - 1 <= Len(items)
        /\ idx - 1 <= Len(answers)
        /\ (pc = "done" /\ exc = "none") => Len(rows) = Len(old) + Len(items))
  /\ [][/\ IsPrefix(rows, rows')
        /\ IsPrefix(committed, committed')
        /\ Len(rows') <= Len(rows) + 1
        /\ Len(rows') = Len(rows) + 1 => Len(answers') = Len(rows') - Len(old)]_vars

\* two items were annotated and saved after an older row
C8_Witness ==
  /\ pc = "done"
  /\ exc = "none"
  /\ old # <<>>
  /\ Len(items) = 2
  /\ Len(rows) = 3
  /\ rows[3].notes = <<"o", "k">>

\* C10: the prompts come in the order platform, query, ceiling; an invalid
\* answer leaves the session at the same prompt; no request is made and no
\* row is saved before the three answers are valid; the extractor of the
\* platform answered is the only one called, once; an empty ceiling answer
\* reaches it as no ceiling.
C10_PromptOrder ==
  /\ [](/\ (pc \in {"query", "ceiling", "fetch", "notes"} \/ called # "none")
           => platform \in {<<"e", "B", "a", "y">>, <<"E", "T", "S", "Y">>}
        /\ (pc \in {"ceiling", "fetch", "notes"} \/ called # "none")
           => search_query = <<"m", "u", "g">>
        /\ called = "ebay" => platform = <<"e", "B", "a", "y">>
        /\ called = "etsy" => platform = <<"E", "T", "S", "Y">>
        /\ called # "none"
           => \/ max_price_input = <<>> /\ max_price = None
              \/ max_price_input = <<"4", "5", ".", "0">> /\ max_price = Some(4500)
        /\ (fetch_calls > 0 \/ rows # old \/ pc \in {"fetch", "notes"}) => called # "none"
        /\ fetch_calls <= 1)
  /\ [][/\ pc = "platform" => pc' \in {"platform", "query", "done"}
        /\ pc = "query" => pc' \in {"query", "ceiling", "done"}
        /\ pc = "ceiling" => pc' \in {"ceiling", "fetch", "done"}
        /\ pc' = "platform" => pc = "platform"
        /\ pc' = "query" => pc \in {"platform", "query"}
        /\ pc' = "ceiling" => pc \in {"query", "ceiling"}
        /\ called # "none" => called' = called
        /\ called' # called => pc = "ceiling" /\ pc' # "ceiling"
        /\ (\/ pc = "platform" /\ user_input' = <<"a", "m", "z">>
            \/ pc = "query" /\ user_input' = <<>>
            \/ pc = "ceiling" /\ user_input' = <<"a", "b">>) /\ exc' = "none"
           => /\ pc' = pc
              /\ out' = Invalid
              /\ UNCHANGED <<platform, search_query, max_price_input, max_price, called,
                             fetch_calls, rows, committed, exc, connOpen>>]_vars

\* the search is made without ceiling, an answer having been rejected
C10_Witness ==
  /\ out = Invalid
  /\ pc = "fetch"
  /\ called = "etsy"
  /\ max_price = None
  /\ fetch_calls = 1
====
